---- MODULE Spec2Model ----
(***************************************************************************)
(* tubely: the thumbnail and video upload handlers (src/api/thumbnails.ts, *)
(* src/api/videos.ts) and the aspect-ratio classifier.                     *)
(*                                                                         *)
(* A handler is an async function on a single-threaded event loop: the     *)
(* code between two awaits runs atomically, and other requests may run at  *)
(* every await.  Each action below is one such segment of a handler, or    *)
(* the completion of an operation the handler started without awaiting it. *)
(***************************************************************************)
EXTENDS Integers, Sequences, FiniteSets, TLC

\* ------------------------------------------------------------------ bounds
NumReqs == 2          \* concurrent requests
MaxDim == 20          \* probed widths and heights 1..MaxDim (classifier runs)
MaxCalls == 2         \* invocations of the classifier on one file (classifier runs)

Reqs == 1..NumReqs

\* ------------------------------------------------------- response statuses
StatusOK == 200
BadRequest == 400
Unauthorized == 401
Forbidden == 403
NotFound == 404
InternalError == 500

NoResp == [status |-> 0, msg |-> ""]
Resp(status, msg) == [status |-> status, msg |-> msg]
NoError == Resp(0, "")

\* --------------------------------------------------------------- the inputs
MAX_UPLOAD_SIZE_THUMBNAIL == 10485760
MAX_UPLOAD_SIZE_VIDEO == 1073741824

Handlers == {"thumbnail", "video", "videoFlat"}
IsVideoHandler(h) == h \in {"video", "videoFlat"}

MaxSizeOf(h) == IF h = "thumbnail" THEN MAX_UPLOAD_SIZE_THUMBNAIL ELSE MAX_UPLOAD_SIZE_VIDEO

Users == {"u1", "u2"}
NoToken == "none"
BadToken == "bad"
TokenOf(u) == IF u = "u1" THEN "jwt-u1" ELSE "jwt-u2"
Tokens == {NoToken, BadToken} \cup {TokenOf(u) : u \in Users}

NoVideoId == ""
VideoIds == {NoVideoId, "v1", "v9"}

MediaTypes == {"", "video/mp4", "image/png", "text/plain"}
KnownImageTypes == {"image/png", "image/jpeg"}

\* What the uploaded bytes are: "junk" is no video at all, the others are
\* videos with the named first stream.
VideoContents == {"hd", "sd"}

NoFile == [size |-> -1, type |-> "", content |-> ""]
FilesOf(h) ==
  {NoFile}
  \cup {[size |-> s, type |-> t, content |-> "junk"] :
          s \in {MaxSizeOf(h), MaxSizeOf(h) + 1}, t \in MediaTypes}
  \cup {[size |-> MaxSizeOf(h), type |-> "video/mp4", content |-> c] : c \in VideoContents}

NoInput == [handler |-> "", videoId |-> "", token |-> "", file |-> NoFile]
Inputs ==
  UNION {{[handler |-> h, videoId |-> v, token |-> t, file |-> f] :
            v \in VideoIds, t \in Tokens, f \in FilesOf(h)} : h \in Handlers}

\* ------------------------------------------------------------ collaborators
NoURL == <<>>
NoVideo == [id |-> "", userID |-> "", thumbnailURL |-> NoURL, videoURL |-> NoURL]

\* getBearerToken + validateJWT: the user a token verifies for, or an error
InvalidUser == ""
validateJWT(token) ==
  IF token = "jwt-u1" THEN "u1" ELSE IF token = "jwt-u2" THEN "u2" ELSE InvalidUser

AuthError(token) ==
  IF token = NoToken THEN Resp(BadRequest, "Malformed authorization header")
  ELSE IF validateJWT(token) = InvalidUser THEN Resp(Unauthorized, "Invalid token")
  ELSE NoError

getVideo(database, videoId) ==
  IF videoId \in DOMAIN database THEN database[videoId] ELSE NoVideo

\* updateVideo persists the record the handler holds
updateVideo(database, video) == [database EXCEPT ![video.id] = video]

DefaultExt == ".bin"
mediaTypeToExt(type) ==
  IF type = "video/mp4" THEN ".mp4"
  ELSE IF type = "image/png" THEN ".png"
  ELSE IF type = "image/jpeg" THEN ".jpg"
  ELSE DefaultExt

getAssetURL(filename) == <<"http://localhost/assets">> \o filename
getS3AssetURL(key) == <<"https://bucket.s3.amazonaws.com">> \o key

\* ------------------------------------------------- aspect ratio classifier
\* A field of a parsed stream entry: Absent when the key is missing.
Absent == -1
Falsy(x) == x = Absent \/ x = 0

\* The probe's standard output as JSON.parse sees it.
MalformedOutput == [parses |-> FALSE, hasStreams |-> FALSE, streams |-> <<>>]
NoStreamsKey == [parses |-> TRUE, hasStreams |-> FALSE, streams |-> <<>>]
StreamsOutput(ss) == [parses |-> TRUE, hasStreams |-> TRUE, streams |-> ss]
Stream(w, h) == [width |-> w, height |-> h]

ProbeResult(code, err, out) == [exitCode |-> code, stderr |-> err, stdout |-> out]

Label(l) == [ok |-> TRUE, label |-> l, error |-> ""]
Failure(msg) == [ok |-> FALSE, label |-> "", error |-> msg]
Labels == {"landscape", "portrait", "other"}

\* Math.floor(16 * (x / 9)): x/9 is a real quotient q + r/9, so the product is
\* 16q + 16r/9 and its floor is 16q + floor(16r/9).
\* integer division in place of the real quotient
AdjustedDimension_Truncating(x) == 16 * (x \div 9)

AdjustedDimension(x) == 16 * (x \div 9) + (16 * (x % 9)) \div 9

ClassifyDimensions(width, height) ==
  LET adjustedWidth == AdjustedDimension(width)
      adjustedHeight == AdjustedDimension(height)
  IN  IF width = adjustedHeight THEN "landscape"
      ELSE IF height = adjustedWidth THEN "portrait"
      ELSE "other"

\* the exit status is not looked at
getVideoAspectRatio_IgnoresExit(proc) ==
  IF ~proc.stdout.parses THEN Failure("SyntaxError: JSON Parse error")
  ELSE IF ~proc.stdout.hasStreams \/ Len(proc.stdout.streams) = 0
    THEN Failure("Stream data not found.")
  ELSE LET aspectData == proc.stdout.streams[1]
       IN  IF Falsy(aspectData.width) \/ Falsy(aspectData.height)
             THEN Failure("Missing stream aspect ratio parameter.")
           ELSE Label(ClassifyDimensions(aspectData.width, aspectData.height))

getVideoAspectRatio(proc) ==
  IF proc.exitCode # 0 THEN Failure(proc.stderr)
  ELSE IF ~proc.stdout.parses THEN Failure("SyntaxError: JSON Parse error")
  ELSE IF ~proc.stdout.hasStreams \/ Len(proc.stdout.streams) = 0
    THEN Failure("Stream data not found.")
  ELSE LET aspectData == proc.stdout.streams[1]
       IN  IF Falsy(aspectData.width) \/ Falsy(aspectData.height)
             THEN Failure("Missing stream aspect ratio parameter.")
           ELSE Label(ClassifyDimensions(aspectData.width, aspectData.height))

\* ffprobe on the bytes found at the path when the process reads it
NoBody == [by |-> 0, content |-> ""]
Body(r, c) == [by |-> r, content |-> c]
ffprobe(body) ==
  IF body = NoBody THEN ProbeResult(1, "No such file or directory", MalformedOutput)
  ELSE IF body.content = "hd" THEN ProbeResult(0, "", StreamsOutput(<<Stream(1920, 1080)>>))
  ELSE IF body.content = "sd" THEN ProbeResult(0, "", StreamsOutput(<<Stream(640, 480)>>))
  ELSE ProbeResult(1, "Invalid data found when processing input", MalformedOutput)

\* ------------------------------------------------------------------- state
Exts == {".mp4", ".png", ".jpg", DefaultExt}
StoredVideoIds == {"v1"}
Filenames == {<<v, e>> : v \in StoredVideoIds, e \in Exts}
S3Keys == Filenames \cup {<<l>> \o f : l \in Labels, f \in Filenames}

VARIABLES
  reqs,   \* per request: its input, the handler's locals and what it has done
  disk,   \* the assets directory: filename -> bytes (NoBody: no such file)
  s3,     \* the bucket: key -> bytes (NoBody: no such object)
  db,     \* the videos table: id -> record
  cIn,    \* classifier runs: the probe's result for the file
  cOut    \* classifier runs: the results of the invocations so far

vars == <<reqs, disk, s3, db, cIn, cOut>>

IdleReq ==
  [pc |-> "idle", in |-> NoInput, userID |-> "", video |-> NoVideo, resp |-> NoResp,
   filename |-> <<>>, aspectRatio |-> "", probed |-> NoBody,
   s3w |-> "none", s3key |-> <<>>, uploaded |-> NoBody,
   wrote |-> FALSE, deleted |-> "no", updateCalled |-> FALSE, persisted |-> FALSE]

NoProbe == ProbeResult(-1, "", MalformedOutput)

InitHandlers ==
  /\ reqs = [r \in Reqs |-> IdleReq]
  /\ disk = [f \in Filenames |-> NoBody]
  /\ s3 = [k \in S3Keys |-> NoBody]
  /\ db = [v \in StoredVideoIds |->
             [id |-> v, userID |-> "u1", thumbnailURL |-> NoURL, videoURL |-> NoURL]]

Init ==
  /\ InitHandlers
  /\ cIn = NoProbe
  /\ cOut = <<>>

\* A thrown error ends the handler; the server answers with its status.
Thrown(q, err) == [q EXCEPT !.pc = "done", !.resp = err]

\* ------------------------------------------------------ handlerUploadThumbnail
ThumbnailPreChecks(in, database) ==
  IF in.videoId = NoVideoId THEN Resp(BadRequest, "Invalid video ID")
  ELSE IF AuthError(in.token) # NoError THEN AuthError(in.token)
  ELSE IF getVideo(database, in.videoId) = NoVideo THEN Resp(NotFound, "Couldn't find video")
  ELSE IF getVideo(database, in.videoId).userID # validateJWT(in.token)
    THEN Resp(Forbidden, "You do not have access to edit this video")
  ELSE NoError

\* >= in place of > in the size check
ThumbnailFileChecks_SizeOffByOne(file) ==
  IF file = NoFile THEN Resp(BadRequest, "Thumbnail file missing")
  ELSE IF file.size >= MAX_UPLOAD_SIZE_THUMBNAIL
    THEN Resp(BadRequest, "Thumbnail file size must be < 10MB")
  ELSE IF file.type = "" THEN Resp(BadRequest, "Missing Content-Type for thumbnail")
  ELSE NoError

ThumbnailFileChecks(file) ==
  IF file = NoFile THEN Resp(BadRequest, "Thumbnail file missing")
  ELSE IF file.size > MAX_UPLOAD_SIZE_THUMBNAIL
    THEN Resp(BadRequest, "Thumbnail file size must be < 10MB")
  ELSE IF file.type = "" THEN Resp(BadRequest, "Missing Content-Type for thumbnail")
  ELSE NoError

\* lines 10-28: up to the await of req.formData()
ThumbnailStart(r) ==
  /\ reqs[r].pc = "idle"
  /\ \E in \in Inputs :
       /\ in.handler = "thumbnail"
       /\ LET err == ThumbnailPreChecks(in, db)
              q == [reqs[r] EXCEPT !.in = in]
          IN  reqs' = [reqs EXCEPT ![r] =
                IF err # NoError THEN Thrown(q, err)
                ELSE [q EXCEPT !.pc = "form",
                               !.userID = validateJWT(in.token),
                               !.video = getVideo(db, in.videoId)]]
  /\ UNCHANGED <<disk, s3, db, cIn, cOut>>

\* lines 29-48: the form is in; up to the await of Bun.write
ThumbnailForm(r) ==
  /\ reqs[r].pc = "form"
  /\ reqs[r].in.handler = "thumbnail"
  /\ LET q == reqs[r]
         err == ThumbnailFileChecks(q.in.file)
     IN  reqs' = [reqs EXCEPT ![r] =
           IF err # NoError THEN Thrown(q, err)
           ELSE [q EXCEPT !.pc = "write",
                          !.filename = <<q.in.videoId, mediaTypeToExt(q.in.file.type)>>]]
  /\ UNCHANGED <<disk, s3, db, cIn, cOut>>

\* the write lands; lines 50-53: up to the await of updateVideo
ThumbnailWritten(r) ==
  /\ reqs[r].pc = "write"
  /\ reqs[r].in.handler = "thumbnail"
  /\ LET q == reqs[r]
     IN  /\ disk' = [disk EXCEPT ![q.filename] = Body(r, q.in.file.content)]
         /\ reqs' = [reqs EXCEPT ![r] =
              [q EXCEPT !.pc = "update",
                        !.wrote = TRUE,
                        !.video.thumbnailURL = getAssetURL(q.filename),
                        !.updateCalled = TRUE]]
  /\ UNCHANGED <<s3, db, cIn, cOut>>

\* updateVideo returns or fails; line 54
ThumbnailUpdated(r) ==
  /\ reqs[r].pc = "update"
  /\ reqs[r].in.handler = "thumbnail"
  /\ LET q == reqs[r]
     IN  \/ /\ db' = updateVideo(db, q.video)
            /\ reqs' = [reqs EXCEPT ![r] =
                 [q EXCEPT !.pc = "done", !.persisted = TRUE,
                           !.resp = Resp(StatusOK, "")]]
         \/ /\ db' = db
            /\ reqs' = [reqs EXCEPT ![r] =
                 Thrown(q, Resp(InternalError, "database error"))]
  /\ UNCHANGED <<disk, s3, cIn, cOut>>

\* -------------------------------------------------------- handlerUploadVideo
\* The file holds two versions of the handler: lines 10-72 classify the file
\* and store it under "<label>/<videoId>.mp4" (handler "video"), lines 133-191
\* store it under "<videoId>.mp4" (handler "videoFlat").  Their validation
\* (lines 11-44 and 134-167) is the same text.
\* the ownership check is left out
VideoPreChecks_NoOwnerCheck(in, database) ==
  IF in.videoId = NoVideoId THEN Resp(BadRequest, "Invalid video ID")
  ELSE IF AuthError(in.token) # NoError THEN AuthError(in.token)
  ELSE IF getVideo(database, in.videoId) = NoVideo THEN Resp(NotFound, "Couldn't find video")
  ELSE NoError

VideoPreChecks(in, database) ==
  IF in.videoId = NoVideoId THEN Resp(BadRequest, "Invalid video ID")
  ELSE IF AuthError(in.token) # NoError THEN AuthError(in.token)
  ELSE IF getVideo(database, in.videoId) = NoVideo THEN Resp(NotFound, "Couldn't find video")
  ELSE IF getVideo(database, in.videoId).userID # validateJWT(in.token)
    THEN Resp(Forbidden, "You do not have access to edit this video")
  ELSE NoError

\* the comparison with "video/mp4" is left out
VideoFileChecks_AnyType(file) ==
  IF file = NoFile THEN Resp(BadRequest, "Video file missing")
  ELSE IF file.size > MAX_UPLOAD_SIZE_VIDEO
    THEN Resp(BadRequest, "Video file size must be < 1GB")
  ELSE IF file.type = "" THEN Resp(BadRequest, "Missing Content-Type for Video")
  ELSE NoError

VideoFileChecks(file) ==
  IF file = NoFile THEN Resp(BadRequest, "Video file missing")
  ELSE IF file.size > MAX_UPLOAD_SIZE_VIDEO
    THEN Resp(BadRequest, "Video file size must be < 1GB")
  ELSE IF file.type = "" THEN Resp(BadRequest, "Missing Content-Type for Video")
  ELSE IF file.type # "video/mp4" THEN Resp(BadRequest, "Invalid Content-Type for Video")
  ELSE NoError

\* lines 11-27: up to the await of req.formData()
VideoStart(r) ==
  /\ reqs[r].pc = "idle"
  /\ \E in \in Inputs :
       /\ IsVideoHandler(in.handler)
       /\ LET err == VideoPreChecks(in, db)
              q == [reqs[r] EXCEPT !.in = in]
          IN  reqs' = [reqs EXCEPT ![r] =
                IF err # NoError THEN Thrown(q, err)
                ELSE [q EXCEPT !.pc = "form",
                               !.userID = validateJWT(in.token),
                               !.video = getVideo(db, in.videoId)]]
  /\ UNCHANGED <<disk, s3, db, cIn, cOut>>

\* lines 28-50: the form is in; up to the await of Bun.write
VideoForm(r) ==
  /\ reqs[r].pc = "form"
  /\ IsVideoHandler(reqs[r].in.handler)
  /\ LET q == reqs[r]
         err == VideoFileChecks(q.in.file)
     IN  reqs' = [reqs EXCEPT ![r] =
           IF err # NoError THEN Thrown(q, err)
           ELSE [q EXCEPT !.pc = "write",
                          !.filename = <<q.in.videoId, mediaTypeToExt(q.in.file.type)>>]]
  /\ UNCHANGED <<disk, s3, db, cIn, cOut>>

\* lines 57-68 (180-187): s3file.write is started and not awaited, the record's
\* URL is set, and tempFile.delete() is started and awaited.
StartUploadAndDelete(q, key) ==
  [q EXCEPT !.pc = "delete",
            !.s3w = "inflight",
            !.s3key = key,
            !.video.videoURL = getS3AssetURL(key)]

\* the write lands; lines 51-53 and 75-94: ffprobe is spawned and awaited
VideoWritten(r) ==
  /\ reqs[r].pc = "write"
  /\ reqs[r].in.handler = "video"
  /\ LET q == reqs[r]
     IN  /\ disk' = [disk EXCEPT ![q.filename] = Body(r, q.in.file.content)]
         /\ reqs' = [reqs EXCEPT ![r] = [q EXCEPT !.pc = "probe", !.wrote = TRUE]]
  /\ UNCHANGED <<s3, db, cIn, cOut>>

\* the write lands; lines 174-187
VideoFlatWritten(r) ==
  /\ reqs[r].pc = "write"
  /\ reqs[r].in.handler = "videoFlat"
  /\ LET q == reqs[r]
     IN  /\ disk' = [disk EXCEPT ![q.filename] = Body(r, q.in.file.content)]
         /\ reqs' = [reqs EXCEPT ![r] =
              StartUploadAndDelete([q EXCEPT !.wrote = TRUE], q.filename)]
  /\ UNCHANGED <<s3, db, cIn, cOut>>

\* ffprobe has read the file and exited; lines 95-123 and 55-68
VideoProbed(r) ==
  /\ reqs[r].pc = "probe"
  /\ LET q == [reqs[r] EXCEPT !.probed = disk[reqs[r].filename]]
         res == getVideoAspectRatio(ffprobe(disk[q.filename]))
     IN  reqs' = [reqs EXCEPT ![r] =
           IF ~res.ok THEN Thrown(q, Resp(InternalError, res.error))
           ELSE StartUploadAndDelete([q EXCEPT !.aspectRatio = res.label],
                                     <<res.label>> \o q.filename)]
  /\ UNCHANGED <<disk, s3, db, cIn, cOut>>

\* tempFile.delete() settles; line 69: up to the await of updateVideo
VideoDeleted(r) ==
  /\ reqs[r].pc = "delete"
  /\ LET q == reqs[r]
     IN  IF disk[q.filename] = NoBody
           THEN /\ reqs' = [reqs EXCEPT ![r] =
                     Thrown([q EXCEPT !.deleted = "missing"],
                            Resp(InternalError, "ENOENT: no such file or directory"))]
                /\ disk' = disk
           ELSE /\ disk' = [disk EXCEPT ![q.filename] = NoBody]
                /\ reqs' = [reqs EXCEPT ![r] =
                     [q EXCEPT !.pc = "update", !.deleted = "ok", !.updateCalled = TRUE]]
  /\ UNCHANGED <<s3, db, cIn, cOut>>

\* updateVideo returns or fails; line 71
VideoUpdated(r) ==
  /\ reqs[r].pc = "update"
  /\ IsVideoHandler(reqs[r].in.handler)
  /\ LET q == reqs[r]
     IN  \/ /\ db' = updateVideo(db, q.video)
            /\ reqs' = [reqs EXCEPT ![r] =
                 [q EXCEPT !.pc = "done", !.persisted = TRUE,
                           !.resp = Resp(StatusOK, "")]]
         \/ /\ db' = db
            /\ reqs' = [reqs EXCEPT ![r] =
                 Thrown(q, Resp(InternalError, "database error"))]
  /\ UNCHANGED <<disk, s3, cIn, cOut>>

\* The upload started at line 61 (180) settles on its own: it reads the local
\* file when it runs, and nothing in the handler waits for it or sees it fail.
S3WriteSucceeds(r) ==
  /\ reqs[r].s3w = "inflight"
  /\ disk[reqs[r].filename] # NoBody
  /\ s3' = [s3 EXCEPT ![reqs[r].s3key] = disk[reqs[r].filename]]
  /\ reqs' = [reqs EXCEPT ![r].s3w = "done", ![r].uploaded = disk[reqs[r].filename]]
  /\ UNCHANGED <<disk, db, cIn, cOut>>

S3WriteFails(r) ==
  /\ reqs[r].s3w = "inflight"
  /\ reqs' = [reqs EXCEPT ![r].s3w = "failed"]
  /\ UNCHANGED <<disk, s3, db, cIn, cOut>>

Next ==
  \E r \in Reqs :
    \/ ThumbnailStart(r)
    \/ ThumbnailForm(r)
    \/ ThumbnailWritten(r)
    \/ ThumbnailUpdated(r)
    \/ VideoStart(r)
    \/ VideoForm(r)
    \/ VideoWritten(r)
    \/ VideoFlatWritten(r)
    \/ VideoProbed(r)
    \/ VideoDeleted(r)
    \/ VideoUpdated(r)
    \/ S3WriteSucceeds(r)
    \/ S3WriteFails(r)

Spec == Init /\ [][Next]_vars

\* ------------------------------------------------------- classifier runs
\* getVideoAspectRatio on its own: the probe's result for a file is drawn from
\* ProbeResults and the classifier is invoked on that file up to MaxCalls times.
Dims == {Absent, 0} \cup (1..MaxDim) \cup {480, 640, 1080, 1920}
Streams == {Stream(w, h) : w \in Dims, h \in Dims}
StreamLists ==
  {<<>>} \cup {<<st>> : st \in Streams} \cup {<<st, Stream(9, 16)>> : st \in Streams}
ProbeOutputs == {MalformedOutput, NoStreamsKey} \cup {StreamsOutput(ss) : ss \in StreamLists}
ProbeResults ==
  {ProbeResult(code, err, out) :
     code \in {0, 1}, err \in {"", "moov atom not found"}, out \in ProbeOutputs}

InitClassifier ==
  /\ InitHandlers
  /\ cIn \in ProbeResults
  /\ cOut = <<>>

Classify ==
  /\ Len(cOut) < MaxCalls
  /\ cOut' = Append(cOut, getVideoAspectRatio(cIn))
  /\ UNCHANGED <<reqs, disk, s3, db, cIn>>

NextClassifier == Classify

SpecClassifier == InitClassifier /\ [][NextClassifier]_vars

\* ================================================================ properties
Started(r) == reqs[r].pc # "idle"
Done(r) == reqs[r].pc = "done"
OnVideo(r) == IsVideoHandler(reqs[r].in.handler)
OnThumbnail(r) == reqs[r].in.handler = "thumbnail"

InitialDB ==
  [v \in StoredVideoIds |->
     [id |-> v, userID |-> "u1", thumbnailURL |-> NoURL, videoURL |-> NoURL]]

TokenValid(in) == in.token \in {TokenOf(u) : u \in Users}
RecordExists(in) == in.videoId \in StoredVideoIds
\* the request is by an authenticated user who is not the record's owner
NonOwner(in) ==
  /\ RecordExists(in)
  /\ TokenValid(in)
  /\ \E u \in Users : in.token = TokenOf(u) /\ u # InitialDB[in.videoId].userID
\* the request is by the record's owner
ByOwner(in) ==
  /\ RecordExists(in)
  /\ \E u \in Users : in.token = TokenOf(u) /\ u = InitialDB[in.videoId].userID

NoWrites(r) ==
  /\ ~reqs[r].wrote
  /\ reqs[r].s3w = "none"
  /\ ~reqs[r].updateCalled
  /\ ~reqs[r].persisted

\* C1: a request by an authenticated user who is not the record's owner is
\* answered 403 and writes nothing: no local file, no object, no updateVideo;
\* when every request so far is such a request, disk, bucket and table are as
\* they were.
C1_NonOwnerForbiddenNoWrite ==
  /\ \A r \in Reqs :
       (Started(r) /\ NonOwner(reqs[r].in)) =>
         /\ Done(r)
         /\ reqs[r].resp.status = Forbidden
         /\ NoWrites(r)
  /\ (\A r \in Reqs : Started(r) => NonOwner(reqs[r].in)) =>
       /\ db = InitialDB
       /\ \A f \in Filenames : disk[f] = NoBody
       /\ \A k \in S3Keys : s3[k] = NoBody

C1_Witness ==
  \E r1, r2 \in Reqs :
    /\ Done(r1) /\ OnThumbnail(r1) /\ NonOwner(reqs[r1].in)
    /\ reqs[r1].in.file # NoFile /\ reqs[r1].resp.status = Forbidden
    /\ Done(r2) /\ OnVideo(r2) /\ NonOwner(reqs[r2].in)
    /\ reqs[r2].in.file.type = "video/mp4" /\ reqs[r2].resp.status = Forbidden

\* C2 (as claimed): when a video upload that wrote its temporary file has
\* finished, the temporary file is gone, whatever the exit path.
C2_TempFileGoneOnEveryExit ==
  \A r \in Reqs :
    (Done(r) /\ OnVideo(r) /\ reqs[r].wrote) => disk[reqs[r].filename] = NoBody

\* C3 (as claimed): a video upload whose file's media type is not video/mp4 is
\* answered 400, whatever its token.
C3_WrongTypeAlways400 ==
  \A r \in Reqs :
    (Done(r) /\ OnVideo(r) /\ reqs[r].in.file # NoFile
       /\ reqs[r].in.file.type # "video/mp4") =>
      reqs[r].resp.status = BadRequest

\* C3 (amended): a video upload by the record's owner (video id present, token
\* valid, record found) whose file's media type is not video/mp4 is answered
\* 400 and writes nothing.
C3_WrongTypeByOwner400 ==
  \A r \in Reqs :
    (Done(r) /\ OnVideo(r) /\ ByOwner(reqs[r].in) /\ reqs[r].in.file # NoFile
       /\ reqs[r].in.file.type # "video/mp4") =>
      /\ reqs[r].resp.status = BadRequest
      /\ NoWrites(r)

C3_Witness ==
  \E r \in Reqs :
    /\ Done(r) /\ OnVideo(r) /\ ByOwner(reqs[r].in)
    /\ reqs[r].in.file.type = "image/png"
    /\ reqs[r].in.file.size <= 1024 * 1024 * 1024
    /\ reqs[r].resp = Resp(BadRequest, "Invalid Content-Type for Video")

\* The first check of the thumbnail handler's sequence that the input fails
\* (0: none).
TenMiB == 10 * 1024 * 1024
FirstFailedCheck(in) ==
  IF in.videoId = NoVideoId THEN 1
  ELSE IF ~TokenValid(in) THEN 2
  ELSE IF ~RecordExists(in) THEN 3
  ELSE IF ~ByOwner(in) THEN 4
  ELSE IF in.file = NoFile THEN 5
  ELSE IF ~(in.file.size <= TenMiB) THEN 6
  ELSE IF in.file.type = "" THEN 7
  ELSE 0

ThumbnailErrorOf(check) ==
  IF check = 1 THEN {Resp(BadRequest, "Invalid video ID")}
  ELSE IF check = 2 THEN {Resp(BadRequest, "Malformed authorization header"),
                          Resp(Unauthorized, "Invalid token")}
  ELSE IF check = 3 THEN {Resp(NotFound, "Couldn't find video")}
  ELSE IF check = 4 THEN {Resp(Forbidden, "You do not have access to edit this video")}
  ELSE IF check = 5 THEN {Resp(BadRequest, "Thumbnail file missing")}
  ELSE IF check = 6 THEN {Resp(BadRequest, "Thumbnail file size must be < 10MB")}
  ELSE {Resp(BadRequest, "Missing Content-Type for thumbnail")}

\* C4: the thumbnail handler answers with the error of the first check its
\* input fails, in the order video id, token, record, owner, file, size (10 MiB
\* itself passes), media type; a request that fails a check writes no file and
\* does not call updateVideo, and a request that fails none is not rejected by
\* these checks.
C4_ThumbnailCheckOrder ==
  \A r \in Reqs :
    (Started(r) /\ OnThumbnail(r)) =>
      LET k == FirstFailedCheck(reqs[r].in)
      IN  /\ (k \in 1..4) => Done(r)
          /\ (k # 0) => /\ reqs[r].pc \in {"form", "done"}
                        /\ ~reqs[r].wrote
                        /\ ~reqs[r].updateCalled
          /\ (k # 0 /\ Done(r)) => reqs[r].resp \in ThumbnailErrorOf(k)
          /\ (k = 0 /\ Done(r)) => /\ reqs[r].wrote
                                   /\ reqs[r].resp.status \in {StatusOK, InternalError}

C4_Witness ==
  \E r1, r2 \in Reqs :
    /\ Done(r1) /\ OnThumbnail(r1) /\ ByOwner(reqs[r1].in)
    /\ reqs[r1].in.file.size = TenMiB /\ reqs[r1].resp.status = StatusOK
    /\ Done(r2) /\ OnThumbnail(r2) /\ ByOwner(reqs[r2].in)
    /\ reqs[r2].in.file.size = TenMiB + 1 /\ reqs[r2].in.file.type = ""
    /\ reqs[r2].resp = Resp(BadRequest, "Thumbnail file size must be < 10MB")

\* The probe's result has a first stream with both dimensions present.
HasDimensions(proc) ==
  /\ proc.exitCode = 0
  /\ proc.stdout.parses
  /\ proc.stdout.hasStreams
  /\ Len(proc.stdout.streams) >= 1
  /\ proc.stdout.streams[1].width # Absent
  /\ proc.stdout.streams[1].height # Absent

ReferenceLabel(w, h) ==
  LET adjWidth == (16 * w) \div 9
      adjHeight == (16 * h) \div 9
  IN  IF w = adjHeight THEN "landscape" ELSE IF h = adjWidth THEN "portrait" ELSE "other"

\* C5: for positive width w and height h of the first stream, every invocation
\* of the classifier on the file returns the label of the reference rule
\* (landscape if w = floor(16h/9), else portrait if h = floor(16w/9), else
\* other): 1920x1080 landscape, 1080x1920 portrait, 640x480 other.
C5_ClassifierFollowsRule ==
  \A i \in 1..Len(cOut) :
    (HasDimensions(cIn) /\ cIn.stdout.streams[1].width > 0
       /\ cIn.stdout.streams[1].height > 0) =>
      LET w == cIn.stdout.streams[1].width
          h == cIn.stdout.streams[1].height
      IN  /\ cOut[i] = Label(ReferenceLabel(w, h))
          /\ (w = 1920 /\ h = 1080) => cOut[i].label = "landscape"
          /\ (w = 1080 /\ h = 1920) => cOut[i].label = "portrait"
          /\ (w = 640 /\ h = 480) => cOut[i].label = "other"

C5_Witness ==
  /\ Len(cOut) = 2
  /\ HasDimensions(cIn)
  /\ cIn.stdout.streams[1] = Stream(1080, 1920)
  /\ cOut[1].label = "portrait"
  /\ cOut[2].label = "portrait"

\* C6: the classifier returns a label only when the probe exited with 0, its
\* output parsed, has a stream entry and the first stream has a width and a
\* height; otherwise it fails and returns no label, and on a non-zero exit the
\* error is the captured standard-error text.
C6_LabelOnlyFromGoodProbe ==
  \A i \in 1..Len(cOut) :
    /\ cOut[i].ok => (HasDimensions(cIn) /\ cOut[i].label \in Labels)
    /\ ~HasDimensions(cIn) => (~cOut[i].ok /\ cOut[i].label = "")
    /\ cIn.exitCode # 0 => (~cOut[i].ok /\ cOut[i].error = cIn.stderr)

C6_Witness ==
  /\ Len(cOut) >= 1
  /\ cIn.exitCode = 1
  /\ cIn.stderr = "moov atom not found"
  /\ cIn.stdout = StreamsOutput(<<Stream(16, 9)>>)
  /\ cOut[1] = Failure("moov atom not found")

C8_UploadFailureSurfaced ==
  \A r \in Reqs :
    (OnVideo(r) /\ Done(r) /\ reqs[r].s3w = "failed") =>
      (reqs[r].resp.status # StatusOK /\ ~reqs[r].persisted)

\* C9 (as claimed): the upload to the bucket is never still in progress once
\* the handler has deleted the local file.
C9_DeleteAfterUpload ==
  \A r \in Reqs : reqs[r].s3w = "inflight" => reqs[r].deleted # "ok"

\* C10 (as claimed): from a video request's write of its temporary file to its
\* delete of it the file holds that request's bytes, so the request probes and
\* uploads its own bytes and its delete finds the file.
C10_NoTempFileInterference ==
  \A r \in Reqs :
    (OnVideo(r) /\ reqs[r].wrote) =>
      LET own == Body(r, reqs[r].in.file.content)
      IN  /\ (reqs[r].pc \in {"probe", "delete"}) => disk[reqs[r].filename] = own
          /\ reqs[r].probed \in {NoBody, own}
          /\ reqs[r].uploaded \in {NoBody, own}
          /\ reqs[r].deleted # "missing"

====
